---- MODULE Spec2Model ----
(***************************************************************************)
(* Model of the retrieval / session core of pAInt:                         *)
(*   - ConversationManager (conversation cache + chat_sessions table),     *)
(*     src/libs/ai_service/app/services/conversation_manager.py            *)
(*   - the /recommend, /chat/reset and /chat/sessions handlers,            *)
(*     src/libs/ai_service/app/api/routes/recommendations.py               *)
(*   - PaintRecommendationAgent.get_recommendation,                        *)
(*     src/libs/ai_service/app/agents/paint_recommendation_agent.py        *)
(*   - PaintVectorStorePG.search, src/libs/ai-service/rag/vector_store_pg.py*)
(* Three specifications share the variables:                               *)
(*   SpecCM     the ConversationManager methods called in any order        *)
(*   Spec       the HTTP handlers of the service, each run to completion   *)
(*   SpecSearch calls of PaintVectorStorePG.search over a fixed catalog    *)
(***************************************************************************)
EXTENDS Integers, Sequences, FiniteSets, TLC

None == "None"

\* ---------------------------------------------------------------- bounds
Users == {1, 2}
WellFormedUuids == {"a1", "b2"}      \* strings uuid.UUID() accepts
MalformedIds == {"zz"}               \* strings uuid.UUID() rejects
SessionIds == WellFormedUuids \cup MalformedIds
MaxMessages == 2                     \* longest history built through the manager API
MaxTurns == 1                        \* human+assistant exchanges per session in the service
MaxCacheEntries == 2                 \* cache entries explored

VARIABLES
  store,       \* chat_sessions table: a set of rows
  cache,       \* ConversationManager._session_cache, in dict insertion order
  uuidUnique,  \* whether chat_sessions.session_uuid carries a unique index
  lastOp,      \* the most recent call and what it returned
  lastSaved,   \* per (session, user): history given to the latest successful save
  lastOut,     \* what the most recent call did, in order, and what it listed
  products,    \* paint_products table: a set of rows
  searchCall,  \* the arguments of the search call, and whether its collaborators fail
  searchDone,  \* the search call has returned
  embedCalled, \* the call invoked embed_query
  searchResult,\* the list the call returned
  searchRaised,\* the call raised instead of returning
  searchClosed,\* the call closed its database session
  populate,    \* the populate_embeddings call: its locals, and how it ended
  inFlight     \* concurrent turns: each one's key, position and locals, and the state they started in

\* ------------------------------------------------ messages and (de)serialisation
HumanMessage(c) == [cls |-> "HumanMessage", content |-> c]
AIMessage(c) == [cls |-> "AIMessage", content |-> c]
\* the next turn of a conversation: the human speaks first, the assistant answers
NextMessage(memory) ==
  IF Len(memory) % 2 = 0 THEN HumanMessage("Oi") ELSE AIMessage("Ok")

\* save_session_to_database, the loop that serialises memory.chat_memory.messages.
\* additional_kwargs carries no "timestamp" (nothing in the repository sets one).
SerializeMessage(message) ==
  IF message.cls = "HumanMessage"
    THEN <<[type |-> "human", content |-> message.content, timestamp |-> None]>>
  ELSE IF message.cls = "AIMessage"
    THEN <<[type |-> "ai", content |-> message.content, timestamp |-> None]>>
  ELSE <<>>

RECURSIVE SerializeMessages(_)
SerializeMessages(messages) ==
  IF messages = <<>> THEN <<>>
  ELSE SerializeMessage(Head(messages)) \o SerializeMessages(Tail(messages))

SessionData(memory) ==
  LET messages_data == SerializeMessages(memory)
  IN [messages |-> messages_data, message_count |-> Len(messages_data)]

\* a loader that rebuilds every stored message as a HumanMessage
DeserializeAllAsHuman(msg_data) ==
  IF msg_data.type \in {"human", "ai"} THEN <<HumanMessage(msg_data.content)>> ELSE <<>>

\* _load_memory_from_database, the loop that rebuilds LangChain messages.
DeserializeMessage(msg_data) ==
  IF msg_data.type = "human" THEN <<HumanMessage(msg_data.content)>>
  ELSE IF msg_data.type = "ai" THEN <<AIMessage(msg_data.content)>>
  ELSE <<>>

RECURSIVE DeserializeMessages(_)
DeserializeMessages(messages_data) ==
  IF messages_data = <<>> THEN <<>>
  ELSE DeserializeMessage(Head(messages_data)) \o DeserializeMessages(Tail(messages_data))

\* ------------------------------------------------------------ Session Store
\* db_session.query(ChatSessionModel).filter(session_uuid == s, user_id == u)
QuerySession(st, s, u) == {r \in st : r.session_uuid = s /\ r.user_id = u}

\* uuid.UUID(session_uuid) raises ValueError on a malformed string
UuidParses(s) == s \in WellFormedUuids

\* a load whose lookup filters by session id alone
LoadBySessionUuidOnly(st, s, u, dbError) ==
  IF dbError THEN <<>>
  ELSE LET found == {r \in st : r.session_uuid = s}
       IN IF found = {} THEN <<>>
          ELSE DeserializeMessages((CHOOSE r \in found : TRUE).session_data.messages)

\* _load_memory_from_database: any exception yields an empty memory
LoadMemoryFromDatabase(st, s, u, dbError) ==
  IF dbError THEN <<>>
  ELSE LET found == QuerySession(st, s, u)
       IN IF found = {} THEN <<>>
          ELSE DeserializeMessages((CHOOSE r \in found : TRUE).session_data.messages)

\* last_activity of a new row: func.current_timestamp(), later than every row's
Now(st) ==
  IF st = {} THEN 1
  ELSE 1 + (CHOOSE n \in {r.last_activity : r \in st} : \A r \in st : r.last_activity <= n)

\* a save whose lookup filters by session id alone
SaveBySessionUuidOnly(st, s, u, memory, dbError, unique) ==
  LET session_data == SessionData(memory)
      found == {r \in st : r.session_uuid = s}
  IN IF dbError THEN [ok |-> FALSE, store |-> st]
     ELSE IF found # {}
       THEN [ok |-> TRUE,
             store |-> {IF r \in found THEN [r EXCEPT !.session_data = session_data] ELSE r
                        : r \in st}]
     ELSE IF ~(s \in WellFormedUuids) THEN [ok |-> FALSE, store |-> st]
     ELSE IF unique /\ \E r \in st : r.session_uuid = s THEN [ok |-> FALSE, store |-> st]
     ELSE [ok |-> TRUE,
           store |-> st \cup {[session_uuid |-> s, user_id |-> u,
                               session_data |-> session_data,
                               last_activity |-> Now(st)]}]

\* save_session_to_database: update the row found for (s, u), else insert one;
\* any exception (store error, malformed uuid, unique index) rolls back and returns False
SaveSessionToDatabase(st, s, u, memory, dbError, unique) ==
  LET session_data == SessionData(memory)
      found == QuerySession(st, s, u)
  IN IF dbError THEN [ok |-> FALSE, store |-> st]
     ELSE IF found # {}
       THEN [ok |-> TRUE,
             store |-> {IF r \in found THEN [r EXCEPT !.session_data = session_data] ELSE r
                        : r \in st}]
     ELSE IF ~UuidParses(s) THEN [ok |-> FALSE, store |-> st]
     ELSE IF unique /\ \E r \in st : r.session_uuid = s THEN [ok |-> FALSE, store |-> st]
     ELSE [ok |-> TRUE,
           store |-> st \cup {[session_uuid |-> s, user_id |-> u,
                               session_data |-> session_data,
                               last_activity |-> Now(st)]}]

\* --------------------------------------------------------- Conversation Cache
CacheKeys(ca) == {ca[i].key : i \in DOMAIN ca}
InCache(ca, key) == key \in CacheKeys(ca)
CacheGet(ca, key) == ca[CHOOSE i \in DOMAIN ca : ca[i].key = key].memory

\* self._session_cache[cache_key] = memory (a dict keeps the position of an existing key)
CachePut(ca, key, memory) ==
  IF InCache(ca, key)
    THEN [i \in DOMAIN ca |-> IF ca[i].key = key THEN [key |-> key, memory |-> memory]
                               ELSE ca[i]]
  ELSE Append(ca, [key |-> key, memory |-> memory])

\* del self._session_cache[cache_key]
CacheDel(ca, key) == SelectSeq(ca, LAMBDA e : e.key # key)

\* a get_memory_for_session that reads the store on every call
GetMemoryAlwaysLoads(ca, st, s, u, dbError) ==
  LET memory == LoadMemoryFromDatabase(st, s, u, dbError)
  IN [memory |-> memory, cache |-> CachePut(ca, <<s, u>>, memory),
      hit |-> InCache(ca, <<s, u>>)]

\* get_memory_for_session
GetMemoryForSession(ca, st, s, u, dbError) ==
  IF InCache(ca, <<s, u>>)
    THEN [memory |-> CacheGet(ca, <<s, u>>), cache |-> ca, hit |-> TRUE]
  ELSE LET memory == LoadMemoryFromDatabase(st, s, u, dbError)
       IN [memory |-> memory, cache |-> CachePut(ca, <<s, u>>, memory), hit |-> FALSE]

\* a clear that drops every entry of the session id, whoever holds it
ClearBySessionUuidOnly(ca, s, u) == SelectSeq(ca, LAMBDA e : e.key[1] # s)

\* clear_session_cache
ClearSessionCache(ca, s, u) ==
  IF InCache(ca, <<s, u>>) THEN CacheDel(ca, <<s, u>>) ELSE ca

\* config.CONVERSATION_MAX_CACHE_SIZE, read from the environment (100 when
\* unset); the deployment explored sets it to 1
CONVERSATION_MAX_CACHE_SIZE == 1

\* a cleanup that evicts as soon as the cache reaches the ceiling
CleanupAtCeiling(ca, arg) ==
  LET max_cache_size == IF arg = <<>> THEN CONVERSATION_MAX_CACHE_SIZE ELSE arg[1]
  IN IF Len(ca) >= max_cache_size /\ ca # <<>>
       THEN SubSeq(ca, Len(ca) - max_cache_size + 2, Len(ca))
     ELSE ca

\* cleanup_inactive_sessions(max_cache_size); arg is <<>> for None, else <<n>>.
\* The first len - max_cache_size keys, in insertion order, are deleted.
CleanupInactiveSessions(ca, arg) ==
  LET max_cache_size == IF arg = <<>> THEN CONVERSATION_MAX_CACHE_SIZE ELSE arg[1]
  IN IF Len(ca) > max_cache_size
       THEN SubSeq(ca, Len(ca) - max_cache_size + 1, Len(ca))
     ELSE ca

\* uuid.uuid4(): an identifier nobody has seen yet
FreshUuids(ca, st) ==
  {s \in WellFormedUuids :
     /\ \A r \in st : r.session_uuid # s
     /\ \A k \in CacheKeys(ca) : k[1] # s}

\* create_new_session with uuid4() = s
CreateNewSession(ca, st, s, u, dbError, unique) ==
  LET cached == CachePut(ca, <<s, u>>, <<>>)
      saved == SaveSessionToDatabase(st, s, u, <<>>, dbError, unique)
  IN [session_uuid |-> s, cache |-> cached, store |-> saved.store, ok |-> saved.ok]

\* rows of user u, most recent last_activity first
RECURSIVE OrderByLastActivityDesc(_)
OrderByLastActivityDesc(rows) ==
  IF rows = {} THEN <<>>
  ELSE LET top == CHOOSE r \in rows : \A q \in rows : q.last_activity <= r.last_activity
       IN <<top>> \o OrderByLastActivityDesc(rows \ {top})

Limit(seq, n) == SubSeq(seq, 1, IF Len(seq) < n THEN Len(seq) ELSE n)

\* first message of type "human" with non-empty content, else "No messages"
RECURSIVE Preview(_)
Preview(messages) ==
  IF messages = <<>> THEN "No messages"
  ELSE IF Head(messages).type = "human" /\ Head(messages).content # ""
    THEN Head(messages).content
  ELSE Preview(Tail(messages))

\* is_active: str(session.session_uuid) in [key[0] for key in self._session_cache.keys()]
IsActive(ca, s, u) == \E k \in CacheKeys(ca) : k[1] = s

SessionInfo(ca, row) ==
  [session_uuid |-> row.session_uuid,
   message_count |-> Len(row.session_data.messages),
   preview |-> Preview(row.session_data.messages),
   is_active |-> IsActive(ca, row.session_uuid, row.user_id)]

\* get_user_sessions
GetUserSessions(st, ca, u, limit) ==
  LET sessions == Limit(OrderByLastActivityDesc({r \in st : r.user_id = u}), limit)
  IN [i \in DOMAIN sessions |-> SessionInfo(ca, sessions[i])]

\* ------------------------------------------- PaintVectorStorePG.search
\* Text is a sequence of one-character strings. Vectors are modelled by a
\* position on a 0..10 scale, similarity (1 - cosine distance) and thresholds
\* in tenths: 7 is 0.7.
MaxQueryLen == 2                     \* longest query text
MaxK == 2                            \* largest k passed to search
QueryChars == {" ", "a", "b"}
Whitespace == {" "}
Thresholds == {0, 7, 9}
ScoreScale == 10                     \* the score 1.0, in tenths

\* a NULL embedding column; a vector is the one-element tuple of its position
Null == <<>>

\* paint_products: p3 has no embedding; p2 and p5 are equally close to any
\* query; p4's color holds no "_" and no "%"
Catalog ==
  {[id |-> 1, color |-> <<"A", "b">>, environment |-> "internal", finish_type |-> "matte",
    product_line |-> "premium", features |-> {"washable", "antimold"},
    surface_types |-> {"wood"}, embedding |-> <<2>>],
   [id |-> 2, color |-> <<"a">>, environment |-> "internal", finish_type |-> "matte",
    product_line |-> "standard", features |-> {"washable"},
    surface_types |-> {"wood"}, embedding |-> <<4>>],
   [id |-> 3, color |-> <<"a", "b">>, environment |-> "internal", finish_type |-> "gloss",
    product_line |-> "premium", features |-> {"washable"},
    surface_types |-> {}, embedding |-> Null],
   [id |-> 4, color |-> <<"b">>, environment |-> "external", finish_type |-> "matte",
    product_line |-> "premium", features |-> {"antimold"},
    surface_types |-> {"wood"}, embedding |-> <<7>>],
   [id |-> 5, color |-> <<"a", "_">>, environment |-> "both", finish_type |-> "matte",
    product_line |-> "premium", features |-> {"washable", "antimold"},
    surface_types |-> {"wood"}, embedding |-> <<4>>]}

\* str.strip()
RECURSIVE LStrip(_)
LStrip(text) ==
  IF text # <<>> /\ Head(text) \in Whitespace THEN LStrip(Tail(text)) ELSE text

RECURSIVE RStrip(_)
RStrip(text) ==
  IF text # <<>> /\ text[Len(text)] \in Whitespace
    THEN RStrip(SubSeq(text, 1, Len(text) - 1))
  ELSE text

Strip(text) == RStrip(LStrip(text))

\* has_query tested on the raw text
HasQueryUnstripped(query) == query # <<>>

\* has_query = query.strip() != ""
HasQuery(query) == Strip(query) # <<>>

\* "if environment:", "if color:", "if features:": None, "" and [] apply no
\* filter. An absent text filter is None or "", an absent color the empty
\* text, an absent list the empty set.
Truthy(value) == value \notin {None, ""}
TruthyText(text) == text # <<>>
TruthyList(list) == list # {}

RECURSIVE CountChar(_, _)
CountChar(text, c) ==
  IF text = <<>> THEN 0
  ELSE (IF Head(text) = c THEN 1 ELSE 0) + CountChar(Tail(text), c)

\* self.embeddings.embed_query(query): the provider maps a text to a vector
EmbedQuery(query) == <<(2 * CountChar(query, "a") + 7 * CountChar(query, "b")) % 11>>

\* 1 - (embedding <=> :query_embedding)
Similarity(embedding, query_embedding) ==
  ScoreScale - (IF embedding[1] < query_embedding[1] THEN query_embedding[1] - embedding[1]
                ELSE embedding[1] - query_embedding[1])

\* LOWER()
LowerChar(c) == IF c = "A" THEN "a" ELSE IF c = "B" THEN "b" ELSE c
Lower(text) == [i \in DOMAIN text |-> LowerChar(text[i])]

\* SQL LIKE: "%" matches any run of characters, "_" any one character
RECURSIVE Like(_, _)
Like(text, pattern) ==
  IF pattern = <<>> THEN text = <<>>
  ELSE IF Head(pattern) = "%"
    THEN Like(text, Tail(pattern)) \/ (text # <<>> /\ Like(Tail(text), pattern))
  ELSE IF text = <<>> THEN FALSE
  ELSE IF Head(pattern) = "_" THEN Like(Tail(text), Tail(pattern))
  ELSE Head(pattern) = Head(text) /\ Like(Tail(text), Tail(pattern))

\* LOWER(color) LIKE LOWER(:color) with :color = f"%{color}%"; color.ilike(f"%{color}%")
ColorMatches(product_color, color) ==
  Like(Lower(product_color), Lower(<<"%">> \o color \o <<"%">>))

\* the metadata filters, the same in both branches of search
FiltersMatch(p, call) ==
  /\ Truthy(call.environment) => p.environment = call.environment
  /\ Truthy(call.finish_type) => p.finish_type = call.finish_type
  /\ Truthy(call.product_line) => p.product_line = call.product_line
  /\ TruthyText(call.color) => ColorMatches(p.color, call.color)
  /\ TruthyList(call.features) => \A feature \in call.features : feature \in p.features
  /\ TruthyList(call.surface_types) =>
       \A surface_type \in call.surface_types : surface_type \in p.surface_types

\* WHERE embedding IS NOT NULL AND <filters> AND similarity >= :threshold
Where(p, call, query_embedding) ==
  /\ p.embedding # Null
  /\ FiltersMatch(p, call)
  /\ Similarity(p.embedding, query_embedding) >= call.threshold

\* every arrangement of a set of rows in a sequence
Arrangements(rows) ==
  {seq \in [1..Cardinality(rows) -> rows] : \A i, j \in DOMAIN seq : i # j => seq[i] # seq[j]}

\* an ordering by distance, farthest first
OrderByDistanceDesc(rows, query_embedding) ==
  {seq \in Arrangements(rows) :
     \A i, j \in DOMAIN seq :
       i < j => Similarity(seq[i].embedding, query_embedding)
                  <= Similarity(seq[j].embedding, query_embedding)}

\* ORDER BY embedding <=> :query_embedding: nearest first, equal distances in any order
OrderByDistance(rows, query_embedding) ==
  {seq \in Arrangements(rows) :
     \A i, j \in DOMAIN seq :
       i < j => Similarity(seq[i].embedding, query_embedding)
                  >= Similarity(seq[j].embedding, query_embedding)}

\* the dictionaries search returns: the product and its relevance_score
ResultRows(rows, call, query_embedding) ==
  [i \in DOMAIN rows |->
     [id |-> rows[i].id,
      relevance_score |-> IF HasQuery(call.query)
                            THEN Similarity(rows[i].embedding, query_embedding)
                          ELSE ScoreScale]]

SearchReturn(embedded, results) ==
  [embedCalled |-> embedded, raised |-> FALSE, results |-> results, closed |-> TRUE]

\* a search that calls embed_query outside its try block
SearchEmbedUnguarded(table, call) ==
  LET query_embedding == EmbedQuery(call.query)
      fetched ==
        IF HasQuery(call.query)
          THEN OrderByDistance({p \in table : Where(p, call, query_embedding)}, query_embedding)
        ELSE Arrangements({p \in table : FiltersMatch(p, call)})
  IN IF HasQuery(call.query) /\ call.embedError
       THEN {[embedCalled |-> TRUE, raised |-> TRUE, results |-> <<>>, closed |-> FALSE]}
     ELSE IF call.dbError THEN {SearchReturn(HasQuery(call.query), <<>>)}
     ELSE {SearchReturn(HasQuery(call.query),
                        ResultRows(Limit(rows, call.k), call, query_embedding))
           : rows \in fetched}

\* a search that lets the exception of the database read reach the caller
SearchPropagating(table, call) ==
  LET query_embedding == EmbedQuery(call.query)
      fetched ==
        IF HasQuery(call.query)
          THEN OrderByDistance({p \in table : Where(p, call, query_embedding)}, query_embedding)
        ELSE Arrangements({p \in table : FiltersMatch(p, call)})
  IN IF HasQuery(call.query) /\ call.embedError THEN {SearchReturn(TRUE, <<>>)}
     ELSE IF call.dbError
       THEN {[embedCalled |-> HasQuery(call.query), raised |-> TRUE, results |-> <<>>,
              closed |-> TRUE]}
     ELSE {SearchReturn(HasQuery(call.query),
                        ResultRows(Limit(rows, call.k), call, query_embedding))
           : rows \in fetched}

\* PaintVectorStorePG.search: every outcome the call can have. "finally:
\* db.close()" closes the session on every path. The database
\* is free in the order of rows the ORDER BY leaves equal, and of all rows
\* when there is no ORDER BY.
Search(table, call) ==
  LET query_embedding == EmbedQuery(call.query)
      fetched ==
        IF HasQuery(call.query)
          THEN OrderByDistance({p \in table : Where(p, call, query_embedding)}, query_embedding)
        ELSE Arrangements({p \in table : FiltersMatch(p, call)})
  IN IF HasQuery(call.query) /\ call.embedError THEN {SearchReturn(TRUE, <<>>)}
     ELSE IF call.dbError THEN {SearchReturn(HasQuery(call.query), <<>>)}
     ELSE {SearchReturn(HasQuery(call.query),
                        ResultRows(Limit(rows, call.k), call, query_embedding))
           : rows \in fetched}

\* search() with its default arguments
DefaultK == 5
DefaultThreshold == 7
DefaultCall ==
  [query |-> <<>>, k |-> DefaultK, threshold |-> DefaultThreshold, environment |-> None,
   finish_type |-> None, product_line |-> None, color |-> <<>>, features |-> {},
   surface_types |-> {}, embedError |-> FALSE, dbError |-> FALSE]

\* no populate_embeddings call has been made
NoCall ==
  [pc |-> "idle", force |-> FALSE, products |-> <<>>, i |-> 0, processed_count |-> 0,
   result |-> 0, failure |-> "none", start |-> {}, calls |-> 0, prev |-> "idle"]

backfillVars == <<populate>>

\* no concurrent turns are being served
NoTurns == [start |-> [store |-> {}, cache |-> <<>>], proc |-> <<>>]

turnVars == <<inFlight>>

searchVars ==
  <<products, searchCall, searchDone, embedCalled, searchResult, searchRaised, searchClosed>>

\* no search has been called
SearchIdle ==
  /\ products = Catalog
  /\ searchCall = DefaultCall
  /\ searchDone = TRUE
  /\ embedCalled = FALSE
  /\ searchResult = <<>>
  /\ searchRaised = FALSE
  /\ searchClosed = FALSE

\* ------------------------------------------------------------- bookkeeping
Absent == [exists |-> FALSE, turns |-> <<>>]
Present(turns) == [exists |-> TRUE, turns |-> turns]

\* the persisted content of (s, u): whether a row exists and the turns it holds
Persisted(st, s, u) ==
  IF QuerySession(st, s, u) = {} THEN Absent
  ELSE Present(DeserializeMessages(
         (CHOOSE r \in QuerySession(st, s, u) : TRUE).session_data.messages))

\* op/s/u: the call; ok: its result; hit: get_memory_for_session found the key cached;
\* err: the store raised during its load; afterGet: a save that directly follows
\* get_memory_for_session of the same key (hit and err are then those of that get);
\* before: for such a save, the persisted content of the key before the two calls
NoOp == [op |-> "init", s |-> None, u |-> 0, ok |-> TRUE, hit |-> FALSE, err |-> FALSE,
         afterGet |-> FALSE, before |-> Absent]
Op(op, s, u, ok, hit, err, afterGet, before) ==
  [op |-> op, s |-> s, u |-> u, ok |-> ok, hit |-> hit, err |-> err,
   afterGet |-> afterGet, before |-> before]

\* events: the steps the call took, in the order the code takes them;
\* sessions: the list get_user_sessions returned; arg: the max_cache_size given
\* to cleanup_inactive_sessions (<<>> for None)
\* response: the parts of the response text of a /recommend turn
NoOut == [events |-> <<>>, sessions |-> <<>>, arg |-> <<>>, response |-> <<>>]
Out(events, sessions, arg) == [NoOut EXCEPT !.events = events, !.sessions = sessions, !.arg = arg]

Keys == SessionIds \X Users

convVars == <<store, cache, uuidUnique, lastOp, lastSaved, lastOut>>

ConvInit ==
  /\ store = {}
  /\ cache = <<>>
  /\ uuidUnique \in BOOLEAN
  /\ lastOp = NoOp
  /\ lastSaved = [k \in Keys |-> Absent]
  /\ lastOut = NoOut

\* ------------------------------------- SpecCM: the manager's methods, any order
\* callers of the manager API: user 1 opens a session (uuid4() gives "a1"), both users
\* present the id "a1", user 1 also presents a malformed id
CMCreators == {1}
CMUuid4 == {"a1"}
CMKeys == {<<"a1", 1>>, <<"a1", 2>>, <<"zz", 1>>}

CMCreateNewSession(u, dbError) ==
  \E s \in FreshUuids(cache, store) \cap CMUuid4 :
    LET r == CreateNewSession(cache, store, s, u, dbError, uuidUnique)
    IN /\ cache' = r.cache
       /\ store' = r.store
       /\ lastSaved' = IF r.ok THEN [lastSaved EXCEPT ![<<s, u>>] = Present(<<>>)]
                       ELSE lastSaved
       /\ lastOp' = Op("create", s, u, r.ok, FALSE, FALSE, FALSE, Absent)
       /\ lastOut' = NoOut
       /\ UNCHANGED <<uuidUnique, searchVars, backfillVars, turnVars>>

CMGetMemory(s, u, dbError) ==
  LET g == GetMemoryForSession(cache, store, s, u, dbError)
  IN /\ cache' = g.cache
     /\ lastOp' = Op("get", s, u, TRUE, g.hit, dbError /\ ~g.hit, FALSE, Absent)
     /\ lastOut' = NoOut
     /\ UNCHANGED <<store, uuidUnique, lastSaved, searchVars, backfillVars, turnVars>>

\* the caller appends a turn to the handle get_memory_for_session returned
CMAddMessage(s, u) ==
  /\ InCache(cache, <<s, u>>)
  /\ Len(CacheGet(cache, <<s, u>>)) < MaxMessages
  /\ cache' = CachePut(cache, <<s, u>>,
                       Append(CacheGet(cache, <<s, u>>), NextMessage(CacheGet(cache, <<s, u>>))))
  /\ lastOp' = Op("add", None, 0, TRUE, FALSE, FALSE, FALSE, Absent)
  /\ lastOut' = NoOut
  /\ UNCHANGED <<store, uuidUnique, lastSaved, searchVars, backfillVars, turnVars>>

\* the caller saves the handle it holds for (s, u)
CMSaveSession(s, u, dbError) ==
  /\ InCache(cache, <<s, u>>)
  /\ LET memory == CacheGet(cache, <<s, u>>)
         r == SaveSessionToDatabase(store, s, u, memory, dbError, uuidUnique)
         afterGet == lastOp.op = "get" /\ lastOp.s = s /\ lastOp.u = u
     IN /\ store' = r.store
        /\ lastSaved' = IF r.ok THEN [lastSaved EXCEPT ![<<s, u>>] = Present(memory)]
                        ELSE lastSaved
        /\ lastOp' = Op("save", s, u, r.ok, afterGet /\ lastOp.hit, afterGet /\ lastOp.err,
                        afterGet, IF afterGet THEN Persisted(store, s, u) ELSE Absent)
  /\ lastOut' = NoOut
  /\ UNCHANGED <<cache, uuidUnique, searchVars, backfillVars, turnVars>>

\* one "evict" per cache entry a call deleted
Evictions(before, after) == [i \in 1..(Len(before) - Len(after)) |-> "evict"]

CMClearSessionCache(s, u) ==
  /\ cache' = ClearSessionCache(cache, s, u)
  /\ lastOp' = Op("clear", s, u, TRUE, FALSE, FALSE, FALSE, Absent)
  /\ lastOut' = Out(Evictions(cache, ClearSessionCache(cache, s, u)), <<>>, <<>>)
  /\ UNCHANGED <<store, uuidUnique, lastSaved, searchVars, backfillVars, turnVars>>

\* the max_cache_size arguments callers pass: None, or a ceiling
CleanupArgs == {<<>>} \cup {<<n>> : n \in 0..MaxCacheEntries}

CMCleanupInactiveSessions(arg) ==
  /\ cache' = CleanupInactiveSessions(cache, arg)
  /\ lastOp' = Op("cleanup", None, 0, TRUE, FALSE, FALSE, FALSE, Absent)
  /\ lastOut' = Out(Evictions(cache, CleanupInactiveSessions(cache, arg)), <<>>, arg)
  /\ UNCHANGED <<store, uuidUnique, lastSaved, searchVars, backfillVars, turnVars>>

\* a fresh ConversationManager(): the process restarted, the table survives
CMNewManager ==
  /\ cache # <<>>
  /\ cache' = <<>>
  /\ lastOp' = Op("new", None, 0, TRUE, FALSE, FALSE, FALSE, Absent)
  /\ lastOut' = NoOut
  /\ UNCHANGED <<store, uuidUnique, lastSaved, searchVars, backfillVars, turnVars>>

CMNext ==
  \/ \E u \in CMCreators, dbError \in BOOLEAN : CMCreateNewSession(u, dbError)
  \/ \E k \in CMKeys, dbError \in BOOLEAN : CMGetMemory(k[1], k[2], dbError)
  \/ \E k \in CacheKeys(cache) : CMAddMessage(k[1], k[2])
  \/ \E k \in CacheKeys(cache), dbError \in BOOLEAN : CMSaveSession(k[1], k[2], dbError)
  \/ \E k \in CMKeys : CMClearSessionCache(k[1], k[2])
  \/ \E arg \in CleanupArgs : CMCleanupInactiveSessions(arg)
  \/ CMNewManager

vars == <<convVars, searchVars, backfillVars, turnVars>>

Init == ConvInit /\ SearchIdle /\ populate = NoCall /\ inFlight = NoTurns

SpecCM == Init /\ [][CMNext]_vars

\* ------------------------------------------- Spec: the service's HTTP handlers
\* agent_executor.invoke(): "ok" returns an answer after the memory took the
\* human turn and the assistant turn; "max_iterations" raises an exception whose
\* text mentions max iterations; "error" raises any other exception. An
\* exception leaves the memory as get_memory_for_session returned it.
AgentOutcomes == {"ok", "max_iterations", "error"}
Intents == {"paint_question", "simple_greeting", "off_topic", "unknown"}

Exchange == <<HumanMessage("Oi"), AIMessage("Ok")>>

\* str(e) of the exception invoke raised
ErrorText == "error text"

\* the response text as a list of its parts: the agent's output; the fixed
\* message of the max-iterations branch, which proposes simpler requests; or
\* f"Desculpe, ocorreu um erro ao processar sua solicitação. Erro: {str(e)}"
ResponseText(outcome) ==
  IF outcome = "ok" THEN <<"answer">>
  ELSE IF outcome = "max_iterations" THEN <<"next steps">>
  ELSE <<"apology", ErrorText>>

\* a get_recommendation that saves the history before it invokes the agent
GetRecommendationSaveFirst(ca, st, s, u, outcome, loadError, saveError, unique) ==
  LET g == GetMemoryForSession(ca, st, s, u, loadError)
      memory == IF outcome = "ok" THEN g.memory \o Exchange ELSE g.memory
      cached == CachePut(g.cache, <<s, u>>, memory)
      saved == SaveSessionToDatabase(st, s, u, g.memory, saveError, unique)
  IN [cache |-> cached, store |-> saved.store, saves |-> TRUE, saved |-> saved.ok,
      hit |-> g.hit, memory |-> g.memory,
      events |-> <<"load", "save">> \o
                 (IF outcome = "ok" THEN <<"respond", "append">>
                  ELSE IF outcome = "max_iterations" THEN <<"stopped", "respond">>
                  ELSE <<"failed", "respond">>),
      response |-> ResponseText(outcome)]

\* a get_recommendation whose memory takes the human turn before the agent is
\* invoked and the assistant turn only when the agent returns
GetRecommendationHumanFirst(ca, st, s, u, outcome, loadError, saveError, unique) ==
  LET g == GetMemoryForSession(ca, st, s, u, loadError)
      memory == IF outcome = "ok" THEN g.memory \o Exchange
                ELSE Append(g.memory, HumanMessage("Oi"))
      cached == CachePut(g.cache, <<s, u>>, memory)
      saves == outcome \in {"ok", "max_iterations"}
      saved == IF saves THEN SaveSessionToDatabase(st, s, u, memory, saveError, unique)
               ELSE [ok |-> FALSE, store |-> st]
  IN [cache |-> cached, store |-> saved.store, saves |-> saves, saved |-> saved.ok,
      hit |-> g.hit, memory |-> memory,
      events |-> <<"load", "append">> \o
                 (IF outcome = "ok" THEN <<"respond", "append", "save">>
                  ELSE IF outcome = "max_iterations" THEN <<"stopped", "save", "respond">>
                  ELSE <<"failed", "respond">>),
      response |-> ResponseText(outcome)]

\* PaintRecommendationAgent.get_recommendation. events lists its steps in code
\* order: "load" get_memory_for_session; "respond" the response is known;
\* "append" the memory takes the exchange (inside invoke, once the agent has
\* answered); "stopped"/"failed" invoke raised; "save" save_session_to_database.
GetRecommendation(ca, st, s, u, outcome, loadError, saveError, unique) ==
  LET g == GetMemoryForSession(ca, st, s, u, loadError)
      memory == IF outcome = "ok" THEN g.memory \o Exchange ELSE g.memory
      cached == CachePut(g.cache, <<s, u>>, memory)
      saves == outcome \in {"ok", "max_iterations"}
      saved == IF saves THEN SaveSessionToDatabase(st, s, u, memory, saveError, unique)
               ELSE [ok |-> FALSE, store |-> st]
  IN [cache |-> cached, store |-> saved.store, saves |-> saves, saved |-> saved.ok,
      hit |-> g.hit, memory |-> memory,
      events |-> <<"load">> \o
                 (IF outcome = "ok" THEN <<"respond", "append", "save">>
                  ELSE IF outcome = "max_iterations" THEN <<"stopped", "save", "respond">>
                  ELSE <<"failed", "respond">>),
      response |-> ResponseText(outcome)]

Room(ca, key) == InCache(ca, key) \/ Len(ca) < MaxCacheEntries

\* intents answered by the agent (paint_question and the fallback branch)
UsesAgent(intent) == intent \notin {"simple_greeting", "off_topic"}
\* "if not session_uuid or session_uuid == 'string'": the handler opens a session
Creates(req) == req = None \/ req = "string"

\* POST /recommend, with uuid4() = fresh when the handler opens a session
GetPaintRecommendation(ca, st, u, req, fresh, intent, outcome, createError, loadError, saveError, unique) ==
  LET creates == Creates(req)
      s == IF creates THEN fresh ELSE req
      c == IF creates THEN CreateNewSession(ca, st, s, u, createError, unique)
           ELSE [session_uuid |-> s, cache |-> ca, store |-> st, ok |-> FALSE]
      agent == UsesAgent(intent)
      r == IF agent
             THEN GetRecommendation(c.cache, c.store, s, u, outcome, loadError, saveError,
                                    unique)
           ELSE [cache |-> c.cache, store |-> c.store, saves |-> FALSE, saved |-> FALSE,
                 hit |-> FALSE, memory |-> <<>>, events |-> <<"respond">>,
                 response |-> <<"scripted">>]
  IN [session_uuid |-> s, cache |-> r.cache, store |-> r.store, response |-> r.response,
      creates |-> creates, created |-> c.ok, agent |-> agent, memory |-> r.memory,
      saves |-> r.saves, saved |-> r.saved,
      events |-> (IF creates THEN <<"create", "save">> ELSE <<>>) \o r.events]

Recommend(u, req, fresh, intent, outcome, createError, loadError, saveError) ==
  /\ Creates(req) => fresh \in FreshUuids(cache, store)
  /\ loadError => ~InCache(cache, <<req, u>>)
  /\ Room(cache, <<IF Creates(req) THEN fresh ELSE req, u>>)
  /\ \E r \in {GetPaintRecommendation(cache, store, u, req, fresh, intent, outcome,
                                       createError, loadError, saveError, uuidUnique)} :
       /\ Len(r.memory) <= 2 * MaxTurns
       /\ cache' = r.cache
       /\ store' = r.store
       /\ lastSaved' =
            IF r.saves /\ r.saved
              THEN [lastSaved EXCEPT ![<<r.session_uuid, u>>] = Present(r.memory)]
            ELSE IF r.created THEN [lastSaved EXCEPT ![<<r.session_uuid, u>>] = Present(<<>>)]
            ELSE lastSaved
       /\ lastOp' = Op("recommend", r.session_uuid, u, r.saved, FALSE, FALSE, FALSE, Absent)
       /\ lastOut' = [Out(r.events, <<>>, <<>>) EXCEPT !.response = r.response]
  /\ UNCHANGED <<uuidUnique, searchVars, backfillVars, turnVars>>

\* POST /chat/reset
ResetSession(ca, st, s, u, fresh, createError, unique) ==
  CreateNewSession(ClearSessionCache(ca, s, u), st, fresh, u, createError, unique)

ResetChatSession(u, s, fresh, createError) ==
  LET c == ResetSession(cache, store, s, u, fresh, createError, uuidUnique)
  IN /\ fresh \in FreshUuids(ClearSessionCache(cache, s, u), store)
     /\ Len(ClearSessionCache(cache, s, u)) < MaxCacheEntries
     /\ cache' = c.cache
     /\ store' = c.store
     /\ lastSaved' = IF c.ok THEN [lastSaved EXCEPT ![<<fresh, u>>] = Present(<<>>)]
                     ELSE lastSaved
     /\ lastOp' = Op("reset", s, u, TRUE, FALSE, FALSE, FALSE, Absent)
     /\ lastOut' = NoOut
     /\ UNCHANGED <<uuidUnique, searchVars, backfillVars, turnVars>>

\* the limit=50 the /chat/sessions route passes
SessionsRouteLimit == 50

\* a listing that drops the cache while it reads
GetUserSessionsEvicting(st, ca, u, limit, dbError) ==
  [store |-> st, cache |-> <<>>, raised |-> dbError,
   sessions |-> IF dbError THEN <<>> ELSE GetUserSessions(st, <<>>, u, limit)]

\* one call of get_user_sessions with what it leaves behind: the query raises
\* (logged, re-raised, session closed) or the summaries are returned
GetUserSessionsCall(st, ca, u, limit, dbError) ==
  [store |-> st, cache |-> ca, raised |-> dbError,
   sessions |-> IF dbError THEN <<>> ELSE GetUserSessions(st, ca, u, limit)]

\* GET /chat/sessions
ListUserSessions(u, dbError) ==
  /\ lastOp.op # "list"
  /\ \E r \in {GetUserSessionsCall(store, cache, u, SessionsRouteLimit, dbError)} :
       /\ cache' = r.cache /\ store' = r.store
       /\ lastOp' = Op("list", None, u, ~r.raised, FALSE, r.raised, FALSE, Absent)
       /\ lastOut' = Out(<<>>, r.sessions, <<>>)
  /\ UNCHANGED <<uuidUnique, lastSaved, searchVars, backfillVars, turnVars>>

\* the service process restarts: the global ConversationManager() is rebuilt
Restart ==
  /\ cache # <<>>
  /\ cache' = <<>>
  /\ lastOp' = Op("restart", None, 0, TRUE, FALSE, FALSE, FALSE, Absent)
  /\ lastOut' = NoOut
  /\ UNCHANGED <<store, uuidUnique, lastSaved, searchVars, backfillVars, turnVars>>

\* the requests explored: user 1 opens sessions, continues "a1", presents a
\* malformed id and resets "a1"; user 2 presents user 1's id "a1"
Requests ==
  {[u |-> 1, req |-> q] : q \in {None, "string", "a1", "zz"}} \cup {[u |-> 2, req |-> "a1"]}
Resets == {[u |-> 1, s |-> "a1"]}

\* store errors are drawn only where the handler reaches the store, uuid4() and
\* the agent's outcome only where the handler uses them
RecommendCalls ==
  {c \in [q : Requests, fresh : WellFormedUuids, intent : Intents, outcome : AgentOutcomes,
          createError : BOOLEAN, loadError : BOOLEAN, saveError : BOOLEAN] :
     /\ Creates(c.q.req) \/ UsesAgent(c.intent)
     /\ ~Creates(c.q.req) => c.fresh = "a1"
     /\ c.createError => Creates(c.q.req)
     /\ c.loadError => (UsesAgent(c.intent) /\ ~Creates(c.q.req))
     /\ c.saveError => (UsesAgent(c.intent) /\ c.outcome # "error")
     /\ (c.outcome # "ok") => UsesAgent(c.intent)}

Next ==
  \/ \E c \in RecommendCalls :
       Recommend(c.q.u, c.q.req, c.fresh, c.intent, c.outcome,
                 c.createError, c.loadError, c.saveError)
  \/ \E q \in Resets, fresh \in WellFormedUuids, createError \in BOOLEAN :
       ResetChatSession(q.u, q.s, fresh, createError)
  \/ \E u \in Users, dbError \in BOOLEAN : ListUserSessions(u, dbError)
  \/ Restart

Spec == Init /\ [][Next]_vars

\* ------------------------------------ SpecSearch: calls of search on the catalog
\* the filter values callers pass; "" and the empty list apply no filter
Environments == {None, "", "internal"}
FinishTypes == {None, "matte"}
ProductLines == {None, "premium"}
Colors == {<<>>, <<"A">>, <<"a", "B">>, <<"_">>, <<"%">>}
Features == {{}, {"washable"}, {"washable", "antimold"}}
SurfaceTypes == {{}, {"wood"}}

RECURSIVE Texts(_)
Texts(n) ==
  IF n = 0 THEN {<<>>}
  ELSE Texts(n - 1) \cup {Append(text, c) : text \in {q \in Texts(n - 1) : Len(q) = n - 1},
                                             c \in QueryChars}

SearchCalls ==
  [query : Texts(MaxQueryLen), k : 0..MaxK, threshold : Thresholds,
   environment : Environments, finish_type : FinishTypes, product_line : ProductLines,
   color : Colors, features : Features, surface_types : SurfaceTypes,
   embedError : BOOLEAN, dbError : BOOLEAN]

\* a caller is about to call search(...)
SearchInit ==
  /\ ConvInit
  /\ uuidUnique = FALSE
  /\ products = Catalog
  /\ searchCall \in SearchCalls
  /\ searchDone = FALSE
  /\ embedCalled = FALSE
  /\ searchResult = <<>>
  /\ searchRaised = FALSE
  /\ searchClosed = FALSE
  /\ populate = NoCall
  /\ inFlight = NoTurns

\* the call runs to its return
SearchAction ==
  /\ ~searchDone
  /\ \E out \in Search(products, searchCall) :
       /\ embedCalled' = out.embedCalled
       /\ searchResult' = out.results
       /\ searchRaised' = out.raised
       /\ searchClosed' = out.closed
  /\ searchDone' = TRUE
  /\ UNCHANGED <<products, searchCall, convVars, backfillVars, turnVars>>

SearchNext == SearchAction

SpecSearch == SearchInit /\ [][SearchNext]_vars

\* ======================================================================
\* SpecBackfill: populate_embeddings over a catalog, one batch per step
\* ======================================================================
NumProducts == 12
MaxCalls == 2
\* batch_size = 10
BatchSize == 10

\* the vector a product carried before the call, and the one embed_documents
\* returns for it now
OldEmbedding == <<0>>
NewEmbedding == <<1>>

ProductIds == 1..NumProducts

\* the products that lack an embedding when the first call is made: any run of
\* consecutive ids, none, or every fourth product
LackingSets ==
  {a..b : a \in ProductIds, b \in 0..NumProducts} \cup {{p \in ProductIds : p % 4 = 2}}

CatalogLacking(lacking) ==
  {[id |-> p, embedding |-> IF p \in lacking THEN Null ELSE OldEmbedding] : p \in ProductIds}

\* the rows as a list in ascending or descending id (the query has no ORDER BY)
RECURSIVE InOrder(_, _)
InOrder(rows, order) ==
  IF rows = {} THEN <<>>
  ELSE LET first == CHOOSE r \in rows :
                      \A q \in rows : IF order = "asc" THEN r.id <= q.id ELSE r.id >= q.id
       IN <<first>> \o InOrder(rows \ {first}, order)

\* a selection that ignores force=False and takes every product
SelectAllProducts(rows, force, order) == InOrder(rows, order)

\* db.query(PaintProduct).all(), or .filter(PaintProduct.embedding.is_(None)).all()
SelectProducts(rows, force, order) ==
  InOrder(IF force THEN rows ELSE {r \in rows : r.embedding = Null}, order)

\* products[i : i + batch_size]
Batch(selected, i) ==
  SubSeq(selected, i + 1, IF i + BatchSize < Len(selected) THEN i + BatchSize ELSE Len(selected))

BatchIds(selected, i) == {Batch(selected, i)[n].id : n \in DOMAIN Batch(selected, i)}

\* what can go wrong inside one batch: building the content of one of its
\* products, the embed_documents call, the commit
BatchFailures == {"none", "content", "embed", "commit"}

\* populate_embeddings up to the first batch: the query, "if not products: return 0"
PopulateBegin(rows, run, force, order, dbError) ==
  LET selected == SelectProducts(rows, force, order)
      call == [NoCall EXCEPT !.force = force, !.start = rows, !.calls = run.calls + 1,
                             !.prev = run.pc]
  IN IF dbError THEN [call EXCEPT !.pc = "raised", !.failure = "query"]
     ELSE IF selected = <<>> THEN [call EXCEPT !.pc = "returned", !.result = 0]
     ELSE [call EXCEPT !.pc = "running", !.products = selected]

\* a failing batch that undoes every batch of the call
PopulateBatchLosingAll(rows, run, failure) ==
  IF failure # "none"
    THEN [products |-> run.start, run |-> [run EXCEPT !.pc = "raised", !.failure = failure]]
  ELSE LET ids == BatchIds(run.products, run.i)
           count == run.processed_count + Cardinality(ids)
           done == run.i + BatchSize >= Len(run.products)
       IN [products |-> {IF r.id \in ids THEN [r EXCEPT !.embedding = NewEmbedding] ELSE r
                         : r \in rows},
           run |-> [run EXCEPT !.i = run.i + BatchSize, !.processed_count = count,
                               !.pc = IF done THEN "returned" ELSE "running",
                               !.result = IF done THEN count ELSE 0]]

\* one pass of the batch loop: contents, embed_documents, assignments, commit;
\* an exception anywhere rolls the uncommitted batch back and is re-raised
PopulateBatch(rows, run, failure) ==
  IF failure # "none"
    THEN [products |-> rows, run |-> [run EXCEPT !.pc = "raised", !.failure = failure]]
  ELSE LET ids == BatchIds(run.products, run.i)
           count == run.processed_count + Cardinality(ids)
           done == run.i + BatchSize >= Len(run.products)
       IN [products |-> {IF r.id \in ids THEN [r EXCEPT !.embedding = NewEmbedding] ELSE r
                         : r \in rows},
           run |-> [run EXCEPT !.i = run.i + BatchSize, !.processed_count = count,
                               !.pc = IF done THEN "returned" ELSE "running",
                               !.result = IF done THEN count ELSE 0]]

BackfillInit ==
  /\ ConvInit
  /\ uuidUnique = FALSE
  /\ \E lacking \in LackingSets : products = CatalogLacking(lacking)
  /\ searchCall = DefaultCall
  /\ searchDone = FALSE
  /\ embedCalled = FALSE
  /\ searchResult = <<>>
  /\ searchRaised = FALSE
  /\ searchClosed = FALSE
  /\ populate = NoCall
  /\ inFlight = NoTurns

\* POST /embeddings/populate is received
PopulateStart(force, order, dbError) ==
  /\ populate.pc # "running"
  /\ populate.calls < MaxCalls
  /\ populate' = PopulateBegin(products, populate, force, order, dbError)
  /\ UNCHANGED <<products, searchCall, searchDone, embedCalled, searchResult, searchRaised,
                 searchClosed, convVars, turnVars>>

\* the running call processes its next batch
PopulateStep(failure) ==
  /\ populate.pc = "running"
  /\ \E r \in {PopulateBatch(products, populate, failure)} :
       /\ products' = r.products
       /\ populate' = r.run
  /\ UNCHANGED <<searchCall, searchDone, embedCalled, searchResult, searchRaised,
                 searchClosed, convVars, turnVars>>

BackfillNext ==
  \/ \E force \in BOOLEAN, order \in {"asc", "desc"}, dbError \in BOOLEAN :
       PopulateStart(force, order, dbError)
  \/ \E failure \in BatchFailures : PopulateStep(failure)

SpecBackfill == BackfillInit /\ [][BackfillNext]_vars

\* ======================================================================
\* SpecCallers: the callers of search, from their arguments to its return
\* ======================================================================
\* the /search and /filter routes, and the agent's search_paints and
\* filter_paints tools
Callers == {"/search", "/filter", "search_paints", "filter_paints"}

\* Field(5, ge=1, le=20) of SearchRequest.k and FilterRequest.k
KMin == 1
KMax == 20

\* the limits and thresholds (in tenths) callers are given, in range and out
GivenLimits == {0, 1, 2, KMax + 1}
GivenThresholds == {0 - 1, 0, DefaultThreshold, ScoreScale, ScoreScale + 1}

CallerRequests ==
  [caller : Callers, query : Texts(1), k : GivenLimits, threshold : GivenThresholds,
   environment : {None, "internal"}, embedError : BOOLEAN, dbError : BOOLEAN]

\* the request models of the routes carry range constraints (SearchRequest,
\* FilterRequest); the argument schemas of the tools (PaintSearchArgs,
\* PaintFilterArgs) carry none
Validated(req) ==
  IF req.caller = "/search"
    THEN /\ KMin <= req.k /\ req.k <= KMax
         /\ 0 <= req.threshold /\ req.threshold <= ScoreScale
  ELSE IF req.caller = "/filter" THEN KMin <= req.k /\ req.k <= KMax
  ELSE TRUE

\* the arguments the caller hands to vector_store.search
SearchArguments(req) ==
  [DefaultCall EXCEPT
     !.query = IF req.caller \in {"/search", "search_paints"} THEN req.query ELSE <<>>,
     !.k = req.k,
     !.threshold = IF req.caller = "/search" THEN req.threshold ELSE DefaultThreshold,
     !.environment = IF req.caller \in {"/filter", "filter_paints"} THEN req.environment
                     ELSE None,
     !.embedError = req.embedError,
     !.dbError = req.dbError]

\* the request is refused before the handler runs
Rejected == [embedCalled |-> FALSE, raised |-> TRUE, results |-> <<>>, closed |-> FALSE]

\* one request through its caller: refused by the request model, or search runs
CallSearch(table, req) ==
  IF ~Validated(req) THEN {Rejected} ELSE Search(table, SearchArguments(req))

CallersInit ==
  /\ ConvInit
  /\ uuidUnique = FALSE
  /\ products = Catalog
  /\ searchCall \in CallerRequests
  /\ searchDone = FALSE
  /\ embedCalled = FALSE
  /\ searchResult = <<>>
  /\ searchRaised = FALSE
  /\ searchClosed = FALSE
  /\ populate = NoCall
  /\ inFlight = NoTurns

\* the request is served
CallerAction ==
  /\ ~searchDone
  /\ \E out \in CallSearch(products, searchCall) :
       /\ embedCalled' = out.embedCalled
       /\ searchResult' = out.results
       /\ searchRaised' = out.raised
       /\ searchClosed' = out.closed
  /\ searchDone' = TRUE
  /\ UNCHANGED <<products, searchCall, convVars, backfillVars, turnVars>>

CallersNext == CallerAction

SpecCallers == CallersInit /\ [][CallersNext]_vars

\* ======================================================================
\* SpecTurns: two conversation turns served concurrently on different keys,
\* interleaved at the Session Store and agent call boundaries
\* ======================================================================
Procs == {1, 2}
TurnKeys == {<<"a1", 1>>, <<"a1", 2>>, <<"b2", 1>>}

\* the exchange the agent adds to the memory in turn p
ExchangeOf(p) ==
  IF p = 1 THEN <<HumanMessage("Q1"), AIMessage("R1")>>
  ELSE <<HumanMessage("Q2"), AIMessage("R2")>>

\* a store holding the exchange of an earlier turn for each key of keys
\* whose row the table accepts
RECURSIVE StoreHolding(_, _)
StoreHolding(keys, unique) ==
  IF keys = {} THEN {}
  ELSE LET k == CHOOSE x \in keys : TRUE
       IN SaveSessionToDatabase(StoreHolding(keys \ {k}, unique), k[1], k[2], Exchange, FALSE,
                                unique).store

\* a cache holding, for each key of keys, what a load from st gives
RECURSIVE CacheHolding(_, _)
CacheHolding(keys, st) ==
  IF keys = {} THEN <<>>
  ELSE LET k == CHOOSE x \in keys : TRUE
       IN Append(CacheHolding(keys \ {k}, st),
                 [key |-> k, memory |-> LoadMemoryFromDatabase(st, k[1], k[2], FALSE)])

\* turn p has not started
NewTurn(key) ==
  [key |-> key, pc |-> "start", outcome |-> "none", loadError |-> FALSE,
   saveError |-> FALSE, loaded |-> <<>>]

TurnsInit ==
  /\ uuidUnique \in BOOLEAN
  /\ \E k1, k2 \in TurnKeys, persisted, cached \in SUBSET TurnKeys :
       /\ k1 # k2
       /\ persisted \subseteq {k1, k2}
       /\ cached \subseteq {k1, k2}
       /\ store = StoreHolding(persisted, uuidUnique)
       /\ cache = CacheHolding(cached, store)
       /\ inFlight = [start |-> [store |-> store, cache |-> cache],
                   proc |-> [p \in Procs |-> NewTurn(IF p = 1 THEN k1 ELSE k2)]]
  /\ lastOp = NoOp
  /\ lastSaved = [k \in Keys |-> Absent]
  /\ lastOut = NoOut
  /\ SearchIdle
  /\ populate = NoCall

\* what a turn on its way leaves alone
turnFrame == <<uuidUnique, lastOp, lastSaved, lastOut, searchVars, backfillVars>>

\* get_memory_for_session: "if cache_key in self._session_cache"
TurnCheck(p) ==
  LET t == inFlight.proc[p]
  IN /\ t.pc = "start"
     /\ inFlight' = [inFlight EXCEPT !.proc[p].pc = IF InCache(cache, t.key) THEN "invoke" ELSE "load"]
     /\ UNCHANGED <<store, cache, turnFrame>>

\* get_memory_for_session: _load_memory_from_database
TurnLoad(p, dbError) ==
  LET t == inFlight.proc[p]
  IN /\ t.pc = "load"
     /\ inFlight' = [inFlight EXCEPT !.proc[p].pc = "insert",
                               !.proc[p].loadError = dbError,
                               !.proc[p].loaded =
                                  LoadMemoryFromDatabase(store, t.key[1], t.key[2], dbError)]
     /\ UNCHANGED <<store, cache, turnFrame>>

\* get_memory_for_session: self._session_cache[cache_key] = memory
TurnInsert(p) ==
  LET t == inFlight.proc[p]
  IN /\ t.pc = "insert"
     /\ cache' = CachePut(cache, t.key, t.loaded)
     /\ inFlight' = [inFlight EXCEPT !.proc[p].pc = "invoke"]
     /\ UNCHANGED <<store, turnFrame>>

\* agent_executor.invoke on the memory object the cache holds for the key
TurnInvoke(p, outcome) ==
  LET t == inFlight.proc[p]
  IN /\ t.pc = "invoke"
     /\ cache' = IF outcome = "ok"
                   THEN CachePut(cache, t.key, CacheGet(cache, t.key) \o ExchangeOf(p))
                 ELSE cache
     /\ inFlight' = [inFlight EXCEPT !.proc[p].pc = IF outcome = "error" THEN "done" ELSE "save",
                               !.proc[p].outcome = outcome]
     /\ UNCHANGED <<store, turnFrame>>

\* save_session_to_database of that memory object
TurnSave(p, dbError) ==
  LET t == inFlight.proc[p]
  IN /\ t.pc = "save"
     /\ store' = SaveSessionToDatabase(store, t.key[1], t.key[2], CacheGet(cache, t.key),
                                       dbError, uuidUnique).store
     /\ inFlight' = [inFlight EXCEPT !.proc[p].pc = "done", !.proc[p].saveError = dbError]
     /\ UNCHANGED <<cache, turnFrame>>

TurnsNext ==
  \/ \E p \in Procs : TurnCheck(p)
  \/ \E p \in Procs, dbError \in BOOLEAN : TurnLoad(p, dbError)
  \/ \E p \in Procs : TurnInsert(p)
  \/ \E p \in Procs, outcome \in AgentOutcomes : TurnInvoke(p, outcome)
  \/ \E p \in Procs, dbError \in BOOLEAN : TurnSave(p, dbError)

SpecTurns == TurnsInit /\ [][TurnsNext]_vars

\* ======================================================================
\* Claims about ConversationManager, checked under SpecCM
\* ======================================================================

\* C3: save/load round-trips losslessly: a cold load (cache miss, store read
\* answered) of a key whose history was saved yields exactly the turns given to
\* the latest successful save, in the same order.
C3_RoundTrip ==
  (lastOp.op = "get" /\ ~lastOp.hit /\ ~lastOp.err /\ lastSaved[<<lastOp.s, lastOp.u>>].exists)
    => CacheGet(cache, <<lastOp.s, lastOp.u>>) = lastSaved[<<lastOp.s, lastOp.u>>].turns

\* a cold load that returned a human turn followed by an assistant turn
C3_Witness ==
  /\ lastOp.op = "get" /\ ~lastOp.hit /\ ~lastOp.err
  /\ lastSaved[<<lastOp.s, lastOp.u>>].exists
  /\ CacheGet(cache, <<lastOp.s, lastOp.u>>) = <<HumanMessage("Oi"), AIMessage("Ok")>>

\* C4 (as claimed): get_memory_for_session followed immediately by a successful
\* save_session_to_database with no turn added in between leaves the persisted
\* turns of the key as they were before the two calls.
C4_GetThenSaveKeepsContent ==
  (lastOp.op = "save" /\ lastOp.afterGet /\ lastOp.ok)
    => Persisted(store, lastOp.s, lastOp.u).turns = lastOp.before.turns

\* C4 (amended): after get_memory_for_session followed immediately by a
\* successful save_session_to_database with no turn added in between, a row
\* exists for the key and its turns are: the cached history when the get hit the
\* cache; the turns persisted before the two calls (none when no row existed)
\* when the get missed the cache and the store read answered; none when the get
\* missed the cache and the store read raised.
C4_GetThenSave ==
  (lastOp.op = "save" /\ lastOp.afterGet /\ lastOp.ok)
    => /\ Persisted(store, lastOp.s, lastOp.u).exists
       /\ Persisted(store, lastOp.s, lastOp.u).turns =
            IF lastOp.hit THEN CacheGet(cache, <<lastOp.s, lastOp.u>>)
            ELSE IF lastOp.err THEN <<>>
            ELSE lastOp.before.turns

\* a cold get of a key with two persisted turns, followed by a successful save
C4_Witness ==
  /\ lastOp.op = "save" /\ lastOp.afterGet /\ lastOp.ok /\ ~lastOp.hit /\ ~lastOp.err
  /\ lastOp.before = Present(<<HumanMessage("Oi"), AIMessage("Ok")>>)
  /\ Persisted(store, lastOp.s, lastOp.u) = lastOp.before

\* C5: save is an upsert keyed by (session id, user id): the table holds at most
\* one row per key, no row for a key never saved successfully, and the row's
\* content is the serialised history of the latest successful save of that key.
C5_Upsert ==
  \A k \in Keys :
    /\ Cardinality(QuerySession(store, k[1], k[2])) <= 1
    /\ (QuerySession(store, k[1], k[2]) # {}) = lastSaved[k].exists
    /\ \A r \in QuerySession(store, k[1], k[2]) :
         r.session_data = SessionData(lastSaved[k].turns)

\* a successful save overwrote one user's row while another user holds a row
\* with the same session id and different content
C5_Witness ==
  /\ lastOp.op = "save" /\ lastOp.ok
  /\ Persisted(store, "a1", 1).exists /\ Persisted(store, "a1", 2).exists
  /\ Persisted(store, "a1", 1).turns # Persisted(store, "a1", 2).turns
  /\ Len(Persisted(store, lastOp.s, lastOp.u).turns) = 2

\* C14: get_memory_for_session(s, u) ends with (s, u) cached, returns the
\* cached history and never writes to the Session Store. On a cache hit the
\* cache is left exactly as it was (the store is not consulted); on a miss one
\* entry is added for (s, u), holding the turns of the store row for (s, u) when
\* the store read answers and a row exists, and no turns otherwise.
C14_GetMemoryCaches ==
  [][(lastOp'.op = "get")
       => LET s == lastOp'.s
              u == lastOp'.u
          IN /\ InCache(cache', <<s, u>>)
             /\ store' = store
             /\ lastOp'.hit = InCache(cache, <<s, u>>)
             /\ GetMemoryForSession(cache, store, s, u, lastOp'.err).memory
                  = CacheGet(cache', <<s, u>>)
             /\ lastOp'.hit => cache' = cache
             /\ ~lastOp'.hit
                  => cache' = Append(cache,
                                     [key |-> <<s, u>>,
                                      memory |-> IF lastOp'.err THEN <<>>
                                                 ELSE Persisted(store, s, u).turns])]_vars

\* a get that hit the cache while the cached history holds a turn the store
\* row does not
C14_Witness ==
  /\ lastOp.op = "get" /\ lastOp.hit
  /\ Persisted(store, lastOp.s, lastOp.u).exists
  /\ Len(CacheGet(cache, <<lastOp.s, lastOp.u>>))
       > Len(Persisted(store, lastOp.s, lastOp.u).turns)

\* C15: clear_session_cache(s, u) removes exactly the key (s, u) when it is
\* cached and changes nothing when it is not; every other entry keeps its
\* history; and neither clear_session_cache nor cleanup_inactive_sessions
\* changes any Session Store row.
C15_EvictionTouchesOnlyCache ==
  [][/\ (lastOp'.op \in {"clear", "cleanup"}) => store' = store
     /\ (lastOp'.op = "clear")
          => /\ CacheKeys(cache') = CacheKeys(cache) \ {<<lastOp'.s, lastOp'.u>>}
             /\ \A k \in CacheKeys(cache') : CacheGet(cache', k) = CacheGet(cache, k)
             /\ ~InCache(cache, <<lastOp'.s, lastOp'.u>>) => cache' = cache]_vars

\* a clear evicted a session with two persisted turns while another entry
\* stayed cached: the row is still there
C15_Witness ==
  /\ lastOp.op = "clear" /\ lastOut.events = <<"evict">>
  /\ ~InCache(cache, <<lastOp.s, lastOp.u>>) /\ cache # <<>>
  /\ Len(Persisted(store, lastOp.s, lastOp.u).turns) = 2

\* the ceiling a cleanup call used
CeilingOf(arg) == IF arg = <<>> THEN CONVERSATION_MAX_CACHE_SIZE ELSE arg[1]

\* C18: cleanup_inactive_sessions(N) leaves exactly min(previous size, N)
\* entries, every surviving entry was cached before the call with the same
\* history, and it changes nothing when the size is at most N.
C18_CleanupLeavesMin ==
  [][(lastOp'.op = "cleanup")
       => LET N == CeilingOf(lastOut'.arg)
          IN /\ Len(cache') = (IF Len(cache) < N THEN Len(cache) ELSE N)
             /\ \A i \in DOMAIN cache' : \E j \in DOMAIN cache : cache'[i] = cache[j]
             /\ Cardinality(CacheKeys(cache')) = Len(cache')
             /\ Len(cache) <= N => cache' = cache]_vars

\* a cleanup with ceiling 1 evicted two of three cached entries
C18_Witness ==
  /\ lastOp.op = "cleanup" /\ lastOut.arg = <<1>>
  /\ lastOut.events = <<"evict", "evict">>
  /\ Len(cache) = 1

\* ======================================================================
\* Claims about session ownership, checked under Spec
\* ======================================================================

\* what user u observes from a lookup of session id s: the history
\* get_memory_for_session returns, whether the save that follows succeeds, and
\* the listing of u's sessions after it
LookupObservation(st, ca, s, u, unique) ==
  LET g == GetMemoryForSession(ca, st, s, u, FALSE)
      saved == SaveSessionToDatabase(st, s, u, g.memory, FALSE, unique)
  IN [memory |-> g.memory, saved |-> saved.ok,
      sessions |-> GetUserSessions(saved.store, g.cache, u, SessionsRouteLimit)]

\* C1: whenever a session s is persisted for user a and another user b holds
\* nothing under s, what b observes from a lookup of s (history, save result,
\* listing) equals what b would observe were a's session absent from store and cache.
C1_CrossUserLookupAsNotFound ==
  \A s \in WellFormedUuids : \A a \in Users : \A b \in Users \ {a} :
    (/\ QuerySession(store, s, a) # {}
     /\ QuerySession(store, s, b) = {}
     /\ ~InCache(cache, <<s, b>>))
      => LookupObservation(store, cache, s, b, uuidUnique)
           = LookupObservation(store \ QuerySession(store, s, a),
                               ClearSessionCache(cache, s, a), s, b, uuidUnique)

\* the users holding an entry for session id s in the store or in the cache
Holders(st, ca, s) ==
  {r.user_id : r \in {q \in st : q.session_uuid = s}} \cup
  {k[2] : k \in {q \in CacheKeys(ca) : q[1] = s}}

\* C2: the Session Store and the cache never hold entries for the same session
\* id under two different user ids.
C2_OneOwnerPerSession ==
  \A s \in SessionIds : Cardinality(Holders(store, cache, s)) <= 1

\* ======================================================================
\* Claims about PaintVectorStorePG.search, checked under SpecSearch
\* ======================================================================

\* the text is empty or holds whitespace only
IsBlank(text) == \A i \in DOMAIN text : text[i] \in Whitespace

\* the row of the catalog a result dictionary describes
ProductOf(result) == CHOOSE p \in products : p.id = result.id

IsSubstring(sub, text) ==
  \E i \in 0..(Len(text) - Len(sub)) : SubSeq(text, i + 1, i + Len(sub)) = sub

\* the filters as the specification states them: scalar attributes match
\* exactly, the color is a case-insensitive substring, every requested feature
\* and every requested surface type is present
SatisfiesFilters(p, call) ==
  /\ Truthy(call.environment) => p.environment = call.environment
  /\ Truthy(call.finish_type) => p.finish_type = call.finish_type
  /\ Truthy(call.product_line) => p.product_line = call.product_line
  /\ IsSubstring(Lower(call.color), Lower(p.color))
  /\ call.features \subseteq p.features
  /\ call.surface_types \subseteq p.surface_types

NoFilters(call) ==
  /\ ~Truthy(call.environment) /\ ~Truthy(call.finish_type) /\ ~Truthy(call.product_line)
  /\ call.color = <<>> /\ call.features = {} /\ call.surface_types = {}

Min(a, b) == IF a < b THEN a ELSE b

\* C6: a search whose query is empty or whitespace-only never invokes
\* embed_query, whatever the filters.
C6_BlankQueryNeverEmbeds ==
  (searchDone /\ IsBlank(searchCall.query)) => ~embedCalled

\* a whitespace-only query with filters returned products while the Embedding
\* Provider was failing
C6_Witness ==
  /\ searchDone /\ searchCall.query = <<" ", " ">>
  /\ searchCall.embedError /\ searchCall.features = {"washable"}
  /\ ~embedCalled /\ Len(searchResult) = 2

\* C7: for a search with a non-empty query, every returned product has a
\* stored embedding, satisfies every supplied filter, and has similarity at or
\* above the threshold.
C7_SemanticResultsQualify ==
  (searchDone /\ ~IsBlank(searchCall.query))
    => \A i \in DOMAIN searchResult :
         /\ ProductOf(searchResult[i]).embedding # Null
         /\ SatisfiesFilters(ProductOf(searchResult[i]), searchCall)
         /\ searchResult[i].relevance_score >= searchCall.threshold
         /\ searchResult[i].relevance_score
              = Similarity(ProductOf(searchResult[i]).embedding, EmbedQuery(searchCall.query))

\* the products the WHERE clause of a search with a query selects
Qualifying(call) ==
  {p \in products : Where(p, call, EmbedQuery(call.query))}

\* C8: for a search with a non-empty query the returned sequence is ordered by
\* non-increasing relevance score and holds at most k results; when neither
\* the Embedding Provider nor the database fails they are min(k, number of
\* qualifying products) distinct qualifying products, and no qualifying product
\* left out scores higher than a returned one.
C8_RankedTopK ==
  (searchDone /\ ~IsBlank(searchCall.query))
    => /\ \A i, j \in DOMAIN searchResult :
            i < j => searchResult[i].relevance_score >= searchResult[j].relevance_score
       /\ Len(searchResult) <= searchCall.k
       /\ (~searchCall.embedError /\ ~searchCall.dbError)
            => LET returned == {searchResult[i].id : i \in DOMAIN searchResult}
               IN /\ Len(searchResult)
                       = Min(searchCall.k, Cardinality(Qualifying(searchCall)))
                  /\ Cardinality(returned) = Len(searchResult)
                  /\ returned \subseteq {p.id : p \in Qualifying(searchCall)}
                  /\ \A p \in Qualifying(searchCall) : \A i \in DOMAIN searchResult :
                       p.id \notin returned
                         => Similarity(p.embedding, EmbedQuery(searchCall.query))
                              <= searchResult[i].relevance_score

\* three products qualify, k = 2: the nearest comes first, one of the two equally
\* near products follows and the other is left out
C8_Witness ==
  /\ searchDone /\ searchCall.query = <<"a">> /\ searchCall.k = 2
  /\ Cardinality(Qualifying(searchCall)) = 3
  /\ searchResult = <<[id |-> 1, relevance_score |-> 10], [id |-> 5, relevance_score |-> 8]>>

\* C9: for a search with an empty query, when the database answers, the
\* result holds at most k products, each matches every scalar filter exactly,
\* holds the color filter as a case-insensitive substring, holds every requested
\* feature and surface type, and carries the score 1.0; with no filter at all the
\* call returns min(k, size of the catalog) products.
C9_FilterModeResults ==
  (searchDone /\ IsBlank(searchCall.query) /\ ~searchCall.dbError)
    => /\ Len(searchResult) <= searchCall.k
       /\ ~searchRaised
       /\ \A i \in DOMAIN searchResult :
            /\ SatisfiesFilters(ProductOf(searchResult[i]), searchCall)
            /\ searchResult[i].relevance_score = ScoreScale
       /\ NoFilters(searchCall)
            => Len(searchResult) = Min(searchCall.k, Cardinality(products))

\* the database read of the call is reached and fails
StoreReadFails(call) ==
  call.dbError /\ ~(call.embedError /\ ~IsBlank(call.query))

\* C10 (as claimed): when the Product Store read fails during search, the call
\* raises to its caller.
C10_StoreFailurePropagates ==
  (searchDone /\ StoreReadFails(searchCall)) => searchRaised

\* C10 (amended): when the Product Store read fails during search, the call
\* does not raise: it returns the empty list.
C10_StoreFailureReturnsEmpty ==
  (searchDone /\ StoreReadFails(searchCall)) => (~searchRaised /\ searchResult = <<>>)

\* a search with a query embedded it, met a failing database and returned
\* the empty list although products qualify
C10_Witness ==
  /\ searchDone /\ searchCall.dbError /\ ~searchCall.embedError
  /\ searchCall.query = <<"a">> /\ searchCall.k = 2 /\ embedCalled
  /\ Qualifying(searchCall) # {}
  /\ ~searchRaised /\ searchResult = <<>>

\* C11: search never raises and always closes its database session; when
\* the Embedding Provider fails on a query that reaches it, or the database
\* query raises, the call returns the empty list.
C11_SearchNeverRaises ==
  searchDone
    => /\ ~searchRaised
       /\ searchClosed
       /\ ((searchCall.embedError /\ ~IsBlank(searchCall.query)) \/ searchCall.dbError)
            => searchResult = <<>>

\* the Embedding Provider failed on a query for which products qualify: the
\* call returned the empty list and closed its session
C11_Witness ==
  /\ searchDone /\ searchCall.embedError /\ ~searchCall.dbError
  /\ searchCall.query = <<"a", "b">> /\ searchCall.threshold = 0 /\ searchCall.k = 1
  /\ Qualifying(searchCall) # {}
  /\ embedCalled /\ ~searchRaised /\ searchClosed /\ searchResult = <<>>

\* ======================================================================
\* Claims about conversation turns, checked under Spec
\* ======================================================================

\* the positions of event e in the steps of a call
Positions(events, e) == {i \in DOMAIN events : events[i] = e}

\* C12 (as claimed): in every turn of /recommend the history is loaded or
\* created before any append, every append comes before a save, and save is
\* invoked exactly once, after the response is known.
C12_SaveExactlyOncePerTurn ==
  (lastOp.op = "recommend")
    => /\ \A i \in Positions(lastOut.events, "append") :
            /\ \E j \in 1..(i - 1) : lastOut.events[j] \in {"load", "create"}
            /\ \E j \in Positions(lastOut.events, "save") : i < j
       /\ Cardinality(Positions(lastOut.events, "save")) = 1
       /\ \A j \in Positions(lastOut.events, "save") :
            \E i \in Positions(lastOut.events, "respond") : i < j

\* C12 (amended): in a turn the agent answers, get_memory_for_session comes
\* first, the exchange is appended after the load and after the response is
\* known, and get_recommendation saves once, after the append or after the agent
\* stopped on max iterations; it does not save when the agent fails otherwise.
\* A turn answered by a scripted reply neither loads, appends nor saves. A turn
\* that opens a session saves once more, inside create_new_session, before
\* anything else.
C12_TurnOrder ==
  (lastOp.op = "recommend")
    => LET ev == lastOut.events
           creates == Positions(ev, "create")
           loads == Positions(ev, "load")
           appends == Positions(ev, "append")
           stops == Positions(ev, "stopped")
           saves == Positions(ev, "save")
       IN /\ Cardinality(loads) <= 1 /\ Cardinality(appends) <= 1
          /\ \A i \in appends :
               /\ \E j \in loads : j < i
               /\ \E j \in Positions(ev, "respond") : j < i
               /\ \E j \in saves : i < j
          /\ \A i \in creates : i = 1 /\ 2 \in saves
          /\ Cardinality(saves)
               = Cardinality(creates) + Cardinality(appends) + Cardinality(stops)
          /\ \A j \in saves :
               \/ j = 2 /\ 1 \in creates
               \/ (j - 1) \in (appends \cup stops)
          /\ loads = {} => (appends = {} /\ stops = {})

\* a turn without a session id that the agent answered: create and save, then
\* load, response, append and the second save
C12_Witness ==
  /\ lastOp.op = "recommend" /\ lastOp.ok
  /\ lastOut.events = <<"create", "save", "load", "respond", "append", "save">>
  /\ Persisted(store, lastOp.s, lastOp.u) = Present(Exchange)

\* C13: the persisted history of every session consists of complete
\* human+assistant pairs only.
C13_OnlyCompletePairs ==
  \A row \in store :
    LET messages == row.session_data.messages
    IN /\ Len(messages) % 2 = 0
       /\ \A i \in DOMAIN messages :
            messages[i].type = (IF i % 2 = 1 THEN "human" ELSE "ai")

\* the agent stopped on max iterations in a turn on a session that holds one
\* exchange: the save wrote that exchange and nothing of the failed turn
C13_Witness ==
  /\ lastOp.op = "recommend" /\ lastOp.ok
  /\ lastOut.events = <<"load", "stopped", "save", "respond">>
  /\ Persisted(store, lastOp.s, lastOp.u) = Present(Exchange)

\* ======================================================================
\* Claims about reset, capacity and the session listing, checked under Spec
\* ======================================================================

\* C16: after reset_chat_session(s, u) returns success, the next
\* get_memory_for_session(s, u) starts from an empty history, while the row of
\* (s, u), if there was one, still exists in the Session Store.
C16_ResetClearsMemory ==
  [][(lastOp'.op = "reset")
       => LET s == lastOp'.s  u == lastOp'.u
          IN /\ GetMemoryForSession(cache', store', s, u, FALSE).memory = <<>>
             /\ Persisted(store, s, u).exists => Persisted(store', s, u).exists]_vars

\* C17: over any sequence of requests served by the service, the number of
\* cached entries does not stay above CONVERSATION_MAX_CACHE_SIZE: a request
\* that starts with the cache above the ceiling ends with it at or under the
\* ceiling.
C17_CacheDoesNotStayAboveCeiling ==
  [][Len(cache) > CONVERSATION_MAX_CACHE_SIZE
       => Len(cache') <= CONVERSATION_MAX_CACHE_SIZE]_vars

\* C19: get_user_sessions is a read-only view: the call leaves the cache (its
\* keys and every cached history) and the Session Store unchanged, whether it
\* returns the summaries or raises.
C19_ListingIsReadOnly ==
  [][(lastOp'.op = "list") => (cache' = cache /\ store' = store)]_vars

\* a listing returned a summary of a session with history while the cache held
\* an entry
C19_Witness ==
  /\ lastOp.op = "list" /\ ~lastOp.err /\ cache # <<>>
  /\ \E i \in DOMAIN lastOut.sessions : lastOut.sessions[i].message_count = 2

\* C20: in get_user_sessions(u), the is_active flag of each listed session s
\* is true exactly when the cache holds the entry keyed by (s, u), whatever
\* entries other users hold, even under the same session id.
C20_IsActiveMeansOwnEntry ==
  (lastOp.op = "list" /\ ~lastOp.err)
    => \A i \in DOMAIN lastOut.sessions :
         lastOut.sessions[i].is_active
           = InCache(cache, <<lastOut.sessions[i].session_uuid, lastOp.u>>)

\* C21: get_user_sessions(u, limit) returns at most limit summaries, all of
\* sessions owned by u, most recent activity first, where saving a turn counts
\* as activity: when the request served just before the listing saved a turn
\* to u's session s, no session of u has a later save, so s is listed first.
C21_ListedByLatestSave ==
  [][(lastOp'.op = "list" /\ ~lastOp'.err)
       => LET u == lastOp'.u
              out == lastOut'.sessions
          IN /\ Len(out) <= SessionsRouteLimit
             /\ \A i \in DOMAIN out : QuerySession(store, out[i].session_uuid, u) # {}
             /\ (/\ lastOp.op = "recommend" /\ lastOp.u = u /\ lastOp.ok
                 /\ Positions(lastOut.events, "append") # {})
                  => (out # <<>> /\ out[1].session_uuid = lastOp.s)]_vars

\* ======================================================================
\* Claims about populate_embeddings, checked under SpecBackfill
\* ======================================================================

\* the ids of the rows without an embedding
Lacking(rows) == {r.id : r \in {q \in rows : q.embedding = Null}}

\* the ids of the rows carrying a vector written by a populate call
Renewed(rows) == {r.id : r \in {q \in rows : q.embedding = NewEmbedding}}

\* C22: a populate_embeddings(force=False) that returns has given an embedding
\* to exactly the products that lacked one when it was called, returns their
\* count and leaves every other row as it was; called right after a call that
\* returned, it returns 0 and changes nothing.
C22_PopulateProcessesLacking ==
  (populate.pc = "returned" /\ ~populate.force)
    => /\ populate.result = Cardinality(Lacking(populate.start))
       /\ \A r \in products :
            IF r.id \in Lacking(populate.start) THEN r.embedding = NewEmbedding
            ELSE r \in populate.start
       /\ {r.id : r \in products} = {r.id : r \in populate.start}
       /\ populate.prev = "returned" => (populate.result = 0 /\ products = populate.start)

\* a first call gave three products their embedding, and the call made right
\* after it returned 0
C22_Witness ==
  /\ populate.pc = "returned" /\ ~populate.force /\ populate.prev = "returned"
  /\ populate.result = 0
  /\ Cardinality(Renewed(products)) = 3
  /\ \E r \in products : r.embedding = OldEmbedding

\* the ids of the products in the batches the call completed
Committed(run) == {run.products[n].id : n \in 1..(IF run.i < Len(run.products) THEN run.i ELSE Len(run.products))}

\* C23: batches are committed one at a time: while a call runs, and when it
\* fails during a batch, every product of the batches before carries its new
\* embedding and every other row is as it was at the call; a
\* populate_embeddings(force=False) that follows the failed call and returns
\* has processed exactly the products that still lacked an embedding.
C23_BackfillResumable ==
  /\ (populate.pc = "running" \/ (populate.pc = "raised" /\ populate.failure # "query"))
       => \A r \in products :
            IF r.id \in Committed(populate) THEN r.embedding = NewEmbedding
            ELSE r \in populate.start
  /\ (populate.pc = "returned" /\ ~populate.force /\ populate.prev = "raised")
       => /\ populate.result = Cardinality(Lacking(populate.start))
          /\ Lacking(products) = {}
          /\ Renewed(populate.start) \subseteq Renewed(products)

\* a call failed in its second batch; the call that followed processed only
\* the products the first had not committed
C23_Witness ==
  /\ populate.pc = "returned" /\ ~populate.force /\ populate.prev = "raised"
  /\ populate.result > 0
  /\ Cardinality(Renewed(populate.start)) = BatchSize
  /\ Cardinality(Renewed(products)) = BatchSize + populate.result

\* C24: a failure on one product inside a batch is caught and skipped:
\* populate_embeddings does not raise because of it.
C24_ProductFailureSkipped ==
  populate.failure = "content" => populate.pc # "raised"

\* ======================================================================
\* Claims about store failures during a load, checked under SpecCM
\* ======================================================================

\* C25: a Session Store failure during get_memory_for_session is surfaced to
\* the caller as a failure: the call does not return normally, and no empty
\* history is cached for the key in place of the one that could not be read.
C25_LoadFailureSurfaced ==
  (lastOp.op = "get" /\ lastOp.err)
    => (~lastOp.ok /\ ~InCache(cache, <<lastOp.s, lastOp.u>>))

IsPrefix(a, b) == Len(a) <= Len(b) /\ SubSeq(b, 1, Len(a)) = a

\* C29: persisted turns are never lost through a read failure: when
\* get_memory_for_session met a store error while a non-empty history was
\* persisted for (s, u), a successful save of (s, u) that follows it in the
\* same cache lifetime leaves a persisted history that still begins with those
\* turns.
C29_ReadFailureLosesNoTurns ==
  (/\ lastOp.op = "save" /\ lastOp.ok /\ lastOp.afterGet /\ lastOp.err
   /\ lastOp.before.turns # <<>>)
    => IsPrefix(lastOp.before.turns, Persisted(store, lastOp.s, lastOp.u).turns)

\* ======================================================================
\* Claims about the callers of search, checked under SpecCallers
\* ======================================================================

\* the limit, or the threshold the caller passes on, is out of range
OutOfRange(req) ==
  \/ req.k < KMin
  \/ req.caller = "/search" /\ (req.threshold < 0 \/ req.threshold > ScoreScale)

\* C26: for every caller of search, a limit below 1 or a threshold outside
\* [0, 1] is rejected before any Embedding Provider call is made and before a
\* Product Store session is opened.
C26_OutOfRangeRejectedFirst ==
  (searchDone /\ OutOfRange(searchCall)) => (~embedCalled /\ ~searchClosed)

\* ======================================================================
\* Claims about failures inside a turn, checked under Spec
\* ======================================================================

\* C27: for every failure inside get_recommendation (an exception from the
\* agent or a provider), the response is the fixed next-step message and holds
\* no part of the error text of the exception.
C27_FailureGivesNextSteps ==
  (lastOp.op = "recommend"
   /\ (Positions(lastOut.events, "failed") # {} \/ Positions(lastOut.events, "stopped") # {}))
    => /\ lastOut.response = <<"next steps">>
       /\ \A i \in DOMAIN lastOut.response : lastOut.response[i] # ErrorText

\* ======================================================================
\* Claims about concurrent turns, checked under SpecTurns
\* ======================================================================

\* the memory turn p ends with when it runs alone from the state the two
\* turns started in
AloneMemory(p) ==
  LET t == inFlight.proc[p]
      g == GetMemoryForSession(inFlight.start.cache, inFlight.start.store, t.key[1], t.key[2],
                               t.loadError)
  IN IF t.outcome = "ok" THEN g.memory \o ExchangeOf(p) ELSE g.memory

\* the persisted content of turn p's key after it ran alone
AlonePersisted(p) ==
  LET t == inFlight.proc[p]
      st == IF t.outcome = "error" THEN inFlight.start.store
            ELSE SaveSessionToDatabase(inFlight.start.store, t.key[1], t.key[2], AloneMemory(p),
                                       t.saveError, uuidUnique).store
  IN Persisted(st, t.key[1], t.key[2])

Mentions(history, exchange) ==
  \E i \in DOMAIN history, j \in DOMAIN exchange : history[i].content = exchange[j].content

\* C28: two turns running concurrently on different (session id, user id)
\* keys do not interfere: when both are over, under every interleaving, each
\* key's cached history and persisted row are those the key's turn leaves
\* when it runs alone, and no key's history mentions the other turn's exchange.
C28_ConcurrentTurnsIsolated ==
  (\A p \in Procs : inFlight.proc[p].pc = "done")
    => \A p \in Procs :
         LET key == inFlight.proc[p].key
         IN /\ CacheGet(cache, key) = AloneMemory(p)
            /\ Persisted(store, key[1], key[2]) = AlonePersisted(p)
            /\ \A q \in Procs \ {p} :
                 /\ ~Mentions(CacheGet(cache, key), ExchangeOf(q))
                 /\ ~Mentions(Persisted(store, key[1], key[2]).turns, ExchangeOf(q))

\* ======================================================================
\* Claims about cache and store agreement, checked under Spec
\* ======================================================================

\* C30: whenever a /recommend request has opened a session with
\* create_new_session, or get_recommendation has returned the agent's answer,
\* the Session Store holds a row for (session id, user id) whose turns equal
\* the cached history: a save that failed has not been silently ignored.
C30_CacheAndStoreAgree ==
  (lastOp.op = "recommend"
   /\ (Positions(lastOut.events, "create") # {} \/ lastOut.response = <<"answer">>))
    => Persisted(store, lastOp.s, lastOp.u)
         = Present(CacheGet(cache, <<lastOp.s, lastOp.u>>))

====
